---- MODULE Spec2Model ----
(***************************************************************************)
(* Blueprint subsystem of shapez.io (src/js/game/blueprint.js): a template *)
(* of entities that is built from live entities (fromUids) or from JSON    *)
(* (deserialize) and instantiated into the world (tryPlace).               *)
(*                                                                         *)
(* The world (root.map, root.entityMgr, root.logic) is a collaborator of   *)
(* blueprint.js; its operations are modelled from their contracts.         *)
(***************************************************************************)
EXTENDS Integers, Sequences, FiniteSets, TLC

VARIABLES
    entities,                   \* this.entities of the Blueprint under study
    heap,                       \* every Entity object ever created in the world, by reference
    staticMap,                  \* root.map: occupied tile -> reference of the occupant
    registry,                   \* root.entityMgr: references of the registered entities
    nextUid,                    \* root.entityMgr: the next uid to hand out
    bulkOperationRunning,       \* root.logic: the batched world-update scope is open
    immutableOperationRunning,  \* root.logic: the immutable-operation scope is open
    pc,                         \* position of the running operation, "idle" between calls
    tile,                       \* tryPlace: the anchor argument
    i,                          \* loop index of the running operation (1-based)
    count,                      \* tryPlace: let count
    clone,                      \* tryPlace: const clone (a reference), 0 outside the loop body
    ret,                        \* outcome of the last finished call
    calls,                      \* number of finished calls
    trace,                      \* calls to collaborators made by the running/last call, in order
    json,                       \* deserialize: the json argument
    entityArray,                \* deserialize: const entityArray
    logged,                     \* logger.error calls made by the running/last call
    uids,                       \* fromUids: the uids argument
    newEntities,                \* fromUids: const newEntities
    averagePosition,            \* fromUids: let averagePosition
    constructed,                \* the entities the Blueprint was constructed with
    history,                    \* the finished rotateCw / rotateCcw calls, each with the
                                \* entities it started from
    advice,                     \* the last answer of canPlace, with the tile asked
                                \* about, the number of calls finished and the world
                                \* at that moment
    economy,                    \* root.gameMode and root.hubGoals as canAfford reads them
    afford,                     \* the last answer of canAfford, while the balance it
                                \* was given for stands
    data,                       \* the last value returned by serialize
    synths,                     \* SynthSystem.synths: uid -> reference of its ShapezSynth
    synthHeap,                  \* every ShapezSynth ever created, by reference
    displayInfo,                \* SynthSystem.play: const displayInfo of the last call
    plays                       \* number of finished play calls

vars == <<entities, heap, staticMap, registry, nextUid, bulkOperationRunning,
          immutableOperationRunning, pc, tile, i, count, clone, ret, calls, trace,
          json, entityArray, logged, uids, newEntities, averagePosition,
          constructed, history, advice, economy, afford, data,
          synths, synthHeap, displayInfo, plays>>

worldVars == <<heap, staticMap, registry, nextUid>>
placeVars == <<tile, count, clone>>
decodeVars == <<json, entityArray, logged>>
uidsVars == <<uids, newEntities, averagePosition>>
scopeVars == <<bulkOperationRunning, immutableOperationRunning>>
synthVars == <<synths, synthHeap, displayInfo, plays>>
extraVars == <<constructed, history, advice, economy, afford, data, synthVars>>

----------------------------------------------------------------------------
(* Bounds of the model *)

MaxEntities == 3    \* longest template given to tryPlace
MaxCalls == 2       \* calls of an operation in one behaviour
MaxJson == 3        \* longest json array given to deserialize
MaxUids == 3        \* longest uid list given to fromUids
MaxLive == 3        \* most live entities in the world of fromUids
FirstUid == 10      \* uid of the first live entity (uids are not references)
MaxTurns == 5       \* rotateCw / rotateCcw calls in one behaviour
MaxRotated == 2     \* longest template given to rotateCw / rotateCcw
MaxAdvised == 2     \* longest template given to canPlace
MaxPlays == 3       \* play calls in one behaviour
MaxStored == 20     \* largest amount of a shape stored in the hub

----------------------------------------------------------------------------
(* Tile geometry: Vector and Rectangle of the core library.  A coordinate  *)
(* is an integer, or a rational [n, d] where fromUids averages; d = 0 is   *)
(* NaN.                                                                    *)

Vec(x, y) == [x |-> x, y |-> y]

\* Vector.add / addInplace on integer vectors
VecAdd(a, b) == Vec(a.x + b.x, a.y + b.y)

\* Vector.sub / subInplace on integer vectors
VecSub(a, b) == Vec(a.x - b.x, a.y - b.y)

Rat(n, d) == [n |-> n, d |-> d]

IsNaN(q) == q.d = 0

\* IEEE addition of two exactly representable rationals; NaN is absorbing
RatAdd(p, q) ==
    IF IsNaN(p) \/ IsNaN(q) THEN Rat(0, 0)
    ELSE IF p.d = q.d THEN Rat(p.n + q.n, p.d)
    ELSE Rat(p.n * q.d + q.n * p.d, p.d * q.d)

\* x / k; here the numerator is 0 whenever k = 0, and 0 / 0 is NaN
RatDivInt(q, k) == IF IsNaN(q) \/ k = 0 THEN Rat(0, 0) ELSE Rat(q.n, q.d * k)

\* x - 0.5
RatSubHalf(q) == IF IsNaN(q) THEN q ELSE Rat(2 * q.n - q.d, 2 * q.d)

\* Math.floor; the result is an integer, or NaN
RatFloor(q) == IF IsNaN(q) THEN q ELSE Rat(q.n \div q.d, 1)

----------------------------------------------------------------------------
(* Buildings.  The code of a building decides its tile size and whether it *)
(* is a removable obstruction (a belt is, a solid building is not).        *)

KnownCodes == {1, 2, 3}

IsRemovable(code) == code = 1

\* StaticMapEntityComponent.getTileSize
TileSize(code) == IF code = 3 THEN Vec(2, 1) ELSE Vec(1, 1)

\* StaticMapEntityComponent.getTileSpaceBounds: the footprint as a rectangle
\* x, y, w, h; the size turns with the rotation
TileSpaceBounds(e) ==
    LET size == TileSize(e.code) IN
    CASE e.rotation = 0 ->
            [x |-> e.origin.x, y |-> e.origin.y, w |-> size.x, h |-> size.y]
      [] e.rotation = 90 ->
            [x |-> e.origin.x - size.y + 1, y |-> e.origin.y, w |-> size.y, h |-> size.x]
      [] e.rotation = 180 ->
            [x |-> e.origin.x - size.x + 1, y |-> e.origin.y - size.y + 1,
             w |-> size.x, h |-> size.y]
      [] OTHER ->
            [x |-> e.origin.x, y |-> e.origin.y - size.x + 1, w |-> size.y, h |-> size.x]

\* Rectangle.getCenter: (x + w / 2, y + h / 2)
RectCenter(r) == [x |-> Rat(2 * r.x + r.w, 2), y |-> Rat(2 * r.y + r.h, 2)]

\* The tiles a rectangle covers
RectTiles(r) == {Vec(x, y) : x \in r.x .. (r.x + r.w - 1), y \in r.y .. (r.y + r.h - 1)}

\* Rectangle moved by an offset (checkCanPlaceEntity's offset argument)
RectMoved(r, offset) == [r EXCEPT !.x = @ + offset.x, !.y = @ + offset.y]

\* An entity: uid 0 until it is registered
Entity(uid, origin, rotation, originalRotation, code) ==
    [uid |-> uid, origin |-> origin, rotation |-> rotation,
     originalRotation |-> originalRotation, code |-> code]

\* Entity.clone: a new, unregistered entity with its own copy of every component
CloneEntity(e) == Entity(0, Vec(e.origin.x, e.origin.y), e.rotation, e.originalRotation, e.code)

----------------------------------------------------------------------------
(* The world: collaborators of blueprint.js, modelled from their contracts *)

\* root.map.getLayerContentXY: the occupant of a tile, 0 if the tile is free
LayerContent(t) == IF t \in DOMAIN staticMap THEN staticMap[t] ELSE 0

\* The tiles of an entity's footprint
Footprint(e) == RectTiles(TileSpaceBounds(e))

\* root.logic.checkCanPlaceEntity(entity, offset): the placement-validity
\* oracle; a tile of the footprint moved by offset blocks the entity iff its
\* occupant is not a removable obstruction
CheckCanPlaceEntity(e, offset) ==
    \A t \in RectTiles(RectMoved(TileSpaceBounds(e), offset)) :
        LayerContent(t) = 0 \/ IsRemovable(heap[LayerContent(t)].code)

\* The removable obstructions in the footprint of heap object ref
Obstructions(ref) ==
    {LayerContent(t) : t \in Footprint(heap[ref])} \ {0}

\* root.map without the entities in gone
MapWithout(gone) ==
    [t \in {u \in DOMAIN staticMap : staticMap[u] \notin gone} |-> staticMap[t]]

\* root.map with ref on every tile of its footprint
MapWith(ref) ==
    [t \in DOMAIN staticMap \cup Footprint(heap[ref]) |->
        IF t \in Footprint(heap[ref]) THEN ref ELSE staticMap[t]]

\* One call made to a collaborator: its name, the template index it is made
\* for, and its argument (a reference, a count or a flag)
Ev(name, idx, arg) == [ev |-> name, i |-> idx, arg |-> arg]

NoRet == [kind |-> "none", bool |-> FALSE, entities |-> <<>>]
BoolRet(b) == [kind |-> "bool", bool |-> b, entities |-> <<>>]
ThrewRet == [kind |-> "threw", bool |-> FALSE, entities |-> <<>>]
VoidRet == [kind |-> "void", bool |-> FALSE, entities |-> <<>>]
BlueprintRet(es) == [kind |-> "blueprint", bool |-> FALSE, entities |-> es]

----------------------------------------------------------------------------
(* Blueprint.tryPlace(root, tile)                                          *)

Anchors == {Vec(0, 0), Vec(1, 0)}

\* Mutant: the loop runs without performBulkOperation / performImmutableOperation
TryPlace_NoScope(t) ==
    /\ pc = "idle" /\ calls < MaxCalls /\ ret.kind # "threw"
    /\ tile' = t
    /\ trace' = <<>>
    /\ ret' = NoRet
    /\ i' = 1 /\ count' = 0 /\ clone' = 0
    /\ pc' = "loop"
    /\ UNCHANGED <<entities, extraVars, worldVars, scopeVars, calls, decodeVars, uidsVars>>

\* tryPlace is called: root.logic.performBulkOperation(...) is entered.  No
\* call follows one that ended with an error
TryPlace(t) ==
    /\ pc = "idle" /\ calls < MaxCalls /\ ret.kind # "threw"
    /\ tile' = t
    /\ trace' = <<>>
    /\ ret' = NoRet
    /\ i' = 0 /\ count' = 0 /\ clone' = 0
    /\ pc' = "bulkEnter"
    /\ UNCHANGED <<entities, extraVars, worldVars, scopeVars, calls, decodeVars, uidsVars>>

\* performBulkOperation opens the batched world-update scope and runs its body
BulkEnter ==
    /\ pc = "bulkEnter"
    /\ bulkOperationRunning' = TRUE
    /\ trace' = Append(trace, Ev("bulkOpen", 0, 0))
    /\ pc' = "immEnter"
    /\ UNCHANGED <<entities, extraVars, worldVars, immutableOperationRunning, placeVars, i, ret,
                   calls, decodeVars, uidsVars>>

\* performImmutableOperation opens its scope and runs its body: let count = 0,
\* let i = 0
ImmEnter ==
    /\ pc = "immEnter"
    /\ immutableOperationRunning' = TRUE
    /\ trace' = Append(trace, Ev("immOpen", 0, 0))
    /\ count' = 0
    /\ i' = 1
    /\ pc' = "loop"
    /\ UNCHANGED <<entities, extraVars, worldVars, bulkOperationRunning, tile, clone, ret, calls,
                   decodeVars, uidsVars>>

\* for (...; i < this.entities.length; ...)
PlaceLoop ==
    /\ pc = "loop"
    /\ pc' = IF i <= Len(entities) THEN "check" ELSE "dispatch"
    /\ UNCHANGED <<entities, extraVars, worldVars, scopeVars, placeVars, i, ret, calls, trace,
                   decodeVars, uidsVars>>

\* Mutant: an infeasible entity ends the loop (break instead of continue)
PlaceCheck_Break ==
    /\ pc = "check"
    /\ LET ok == CheckCanPlaceEntity(entities[i], tile) IN
        /\ trace' = Append(trace, Ev("check", i, IF ok THEN 1 ELSE 0))
        /\ IF ok THEN pc' = "clone" /\ i' = i
                 ELSE pc' = "dispatch" /\ i' = i
    /\ UNCHANGED <<entities, extraVars, worldVars, scopeVars, placeVars, ret, calls,
                   decodeVars, uidsVars>>

\* Mutant: an infeasible entity rolls back the clones placed before it
PlaceCheck_Rollback ==
    /\ pc = "check"
    /\ LET ok == CheckCanPlaceEntity(entities[i], tile)
           placed == {trace[n].arg : n \in {m \in DOMAIN trace : trace[m].ev = "register"}}
       IN
        /\ trace' = Append(trace, Ev("check", i, IF ok THEN 1 ELSE 0))
        /\ IF ok THEN pc' = "clone" /\ i' = i /\ UNCHANGED <<staticMap, registry>>
                 ELSE /\ pc' = "loop" /\ i' = i + 1
                      /\ staticMap' = MapWithout(placed)
                      /\ registry' = registry \ placed
    /\ UNCHANGED <<entities, extraVars, heap, nextUid, scopeVars, placeVars, ret, calls,
                   decodeVars, uidsVars>>

\* if (!root.logic.checkCanPlaceEntity(entity, tile)) continue;
PlaceCheck ==
    /\ pc = "check"
    /\ LET ok == CheckCanPlaceEntity(entities[i], tile) IN
        /\ trace' = Append(trace, Ev("check", i, IF ok THEN 1 ELSE 0))
        /\ IF ok THEN pc' = "clone" /\ i' = i
                 ELSE pc' = "loop" /\ i' = i + 1
    /\ UNCHANGED <<entities, extraVars, worldVars, scopeVars, placeVars, ret, calls,
                   decodeVars, uidsVars>>

\* const clone = entity.clone();
PlaceClone ==
    /\ pc = "clone"
    /\ heap' = Append(heap, CloneEntity(entities[i]))
    /\ clone' = Len(heap) + 1
    /\ trace' = Append(trace, Ev("clone", i, Len(heap) + 1))
    /\ pc' = "translate"
    /\ UNCHANGED <<entities, extraVars, staticMap, registry, nextUid, scopeVars, tile, count, i,
                   ret, calls, decodeVars, uidsVars>>

\* Mutant: the clone shares its origin vector with the template entity
PlaceTranslate_Aliased ==
    /\ pc = "translate"
    /\ heap' = [heap EXCEPT ![clone].origin = VecAdd(@, tile)]
    /\ entities' = [entities EXCEPT ![i].origin = VecAdd(@, tile)]
    /\ trace' = Append(trace, Ev("translate", i, clone))
    /\ pc' = "free"
    /\ UNCHANGED <<extraVars, staticMap, registry, nextUid, scopeVars, placeVars, i,
                   ret, calls, decodeVars, uidsVars>>

\* clone.components.StaticMapEntity.origin.addInplace(tile);
PlaceTranslate ==
    /\ pc = "translate"
    /\ heap' = [heap EXCEPT ![clone].origin = VecAdd(@, tile)]
    /\ trace' = Append(trace, Ev("translate", i, clone))
    /\ pc' = "free"
    /\ UNCHANGED <<entities, extraVars, staticMap, registry, nextUid, scopeVars, placeVars, i,
                   ret, calls, decodeVars, uidsVars>>

\* root.logic.freeEntityAreaBeforeBuild(clone): every removable obstruction in
\* the clone's footprint leaves the map and the registry
PlaceFree ==
    /\ pc = "free"
    /\ LET gone == {r \in Obstructions(clone) : IsRemovable(heap[r].code)} IN
        /\ staticMap' = MapWithout(gone)
        /\ registry' = registry \ gone
    /\ trace' = Append(trace, Ev("free", i, clone))
    /\ pc' = "place"
    /\ UNCHANGED <<entities, extraVars, heap, nextUid, scopeVars, placeVars, i, ret, calls,
                   decodeVars, uidsVars>>

\* Mutant: placeStaticEntity is forgotten
PlaceStatic_Forgotten ==
    /\ pc = "place"
    /\ pc' = "register"
    /\ UNCHANGED <<entities, extraVars, worldVars, scopeVars, placeVars, i, ret, calls, trace,
                   decodeVars, uidsVars>>

\* root.map.placeStaticEntity(clone);
PlaceStatic ==
    /\ pc = "place"
    /\ staticMap' = MapWith(clone)
    /\ trace' = Append(trace, Ev("placeStatic", i, clone))
    /\ pc' = "register"
    /\ UNCHANGED <<entities, extraVars, heap, registry, nextUid, scopeVars, placeVars, i, ret,
                   calls, decodeVars, uidsVars>>

\* root.entityMgr.registerEntity(clone): the clone gets its uid
PlaceRegister ==
    /\ pc = "register"
    /\ registry' = registry \cup {clone}
    /\ heap' = [heap EXCEPT ![clone].uid = nextUid]
    /\ nextUid' = nextUid + 1
    /\ trace' = Append(trace, Ev("register", i, clone))
    /\ pc' = "inc"
    /\ UNCHANGED <<entities, extraVars, staticMap, scopeVars, placeVars, i, ret, calls,
                   decodeVars, uidsVars>>

\* count++; and the loop's ++i
PlaceInc ==
    /\ pc = "inc"
    /\ count' = count + 1
    /\ i' = i + 1
    /\ clone' = 0
    /\ pc' = "loop"
    /\ UNCHANGED <<entities, extraVars, worldVars, scopeVars, tile, ret, calls, trace,
                   decodeVars, uidsVars>>

\* Mutant: the event is dispatched only if something was placed
PlaceDispatch_SkipZero ==
    /\ pc = "dispatch"
    /\ trace' = IF count = 0 THEN trace ELSE Append(trace, Ev("dispatch", count, count))
    /\ pc' = "return"
    /\ UNCHANGED <<entities, extraVars, worldVars, scopeVars, placeVars, i, ret, calls,
                   decodeVars, uidsVars>>

\* root.signals.bulkAchievementCheck.dispatch(placeBlueprint, count, placeBp1000, count);
PlaceDispatch ==
    /\ pc = "dispatch"
    /\ trace' = Append(trace, Ev("dispatch", count, count))
    /\ pc' = "return"
    /\ UNCHANGED <<entities, extraVars, worldVars, scopeVars, placeVars, i, ret, calls,
                   decodeVars, uidsVars>>

\* return count !== 0;
PlaceReturn ==
    /\ pc = "return"
    /\ ret' = BoolRet(count # 0)
    /\ pc' = "immExit"
    /\ UNCHANGED <<entities, extraVars, worldVars, scopeVars, placeVars, i, calls, trace,
                   decodeVars, uidsVars>>

\* performImmutableOperation closes its scope, whichever way its body ended
ImmExit ==
    /\ pc = "immExit"
    /\ immutableOperationRunning' = FALSE
    /\ trace' = Append(trace, Ev("immClose", 0, 0))
    /\ pc' = "bulkExit"
    /\ UNCHANGED <<entities, extraVars, worldVars, bulkOperationRunning, placeVars, i, ret, calls,
                   decodeVars, uidsVars>>

\* performBulkOperation closes the batched scope, whichever way its body
\* ended, and tryPlace is over
BulkExit ==
    /\ pc = "bulkExit"
    /\ bulkOperationRunning' = FALSE
    /\ trace' = Append(trace, Ev("bulkClose", 0, 0))
    /\ calls' = calls + 1
    /\ pc' = "idle"
    /\ UNCHANGED <<entities, extraVars, worldVars, immutableOperationRunning, placeVars, i, ret,
                   decodeVars, uidsVars>>

\* A collaborator called in the loop body or the dispatch raises an error,
\* which propagates out of the body of both scopes
BodyPcs == {"check", "clone", "translate", "free", "place", "register", "dispatch"}

CollaboratorThrows ==
    /\ pc \in BodyPcs
    /\ ret' = ThrewRet
    /\ trace' = Append(trace, Ev("throw", i, 0))
    /\ pc' = "immExit"
    /\ UNCHANGED <<entities, extraVars, worldVars, scopeVars, placeVars, i, calls,
                   decodeVars, uidsVars>>

----------------------------------------------------------------------------
(* Worlds and templates the operations start from *)

\* The numbers of S in ascending order
RECURSIVE Ascending(_)
Ascending(S) ==
    IF S = {} THEN <<>>
    ELSE LET m == CHOOSE x \in S : \A y \in S : x <= y
         IN <<m>> \o Ascending(S \ {m})

SeqsUpTo(S, n) == UNION {[1 .. k -> S] : k \in 0 .. n}

Building(origin, rotation, code) == [origin |-> origin, rotation |-> rotation, code |-> code]

\* No tile is covered by two of the buildings chosen from cands
Disjoint(cands, S) ==
    \A a, b \in S : a # b => Footprint(cands[a]) \cap Footprint(cands[b]) = {}

\* The live entities of a world holding the buildings bs: uids from FirstUid
WorldHeap(bs) ==
    [k \in 1 .. Len(bs) |->
        Entity(FirstUid + k - 1, bs[k].origin, bs[k].rotation, bs[k].rotation, bs[k].code)]

\* The static map of the world whose live entities are h
WorldMap(h) ==
    [t \in UNION {Footprint(h[k]) : k \in DOMAIN h} |->
        CHOOSE k \in DOMAIN h : t \in Footprint(h[k])]

\* The worlds with at most n of the candidate buildings, no two overlapping
Worlds(cands, n) ==
    {[k \in 1 .. Cardinality(S) |-> cands[Ascending(S)[k]]] :
        S \in {T \in SUBSET (1 .. Len(cands)) : Cardinality(T) <= n /\ Disjoint(cands, T)}}

\* A game that gives nothing for free and has nothing stored
NoEconomy == [free |-> FALSE, noCost |-> FALSE, key |-> "", storedShapes |-> <<>>]

\* Nothing is running
Quiet ==
    /\ bulkOperationRunning = FALSE /\ immutableOperationRunning = FALSE
    /\ pc = "idle" /\ tile = Vec(0, 0) /\ i = 0 /\ count = 0 /\ clone = 0
    /\ ret = NoRet /\ calls = 0 /\ trace = <<>>
    /\ json = [t |-> "undefined"] /\ entityArray = <<>> /\ logged = 0
    /\ uids = <<>> /\ newEntities = <<>>
    /\ averagePosition = [x |-> Rat(0, 1), y |-> Rat(0, 1)]
    /\ history = <<>>
    /\ advice = [state |-> "none", tile |-> Vec(0, 0), value |-> FALSE, at |-> 0,
                 world |-> <<>>]
    /\ afford = [state |-> "none", value |-> FALSE]
    /\ data = [t |-> "undefined"]
    /\ synths = [u \in {} |-> 0]
    /\ synthHeap = <<>>
    /\ displayInfo = [u \in {} |-> <<>>]
    /\ plays = 0

InWorld(bs) ==
    /\ heap = WorldHeap(bs)
    /\ staticMap = WorldMap(WorldHeap(bs))
    /\ registry = 1 .. Len(bs)
    /\ nextUid = FirstUid + Len(bs)

\* tryPlace: a belt or a solid building may stand on each of two tiles
PlaceCandidates ==
    <<Building(Vec(0, 0), 0, 1), Building(Vec(0, 0), 0, 2),
      Building(Vec(1, 0), 0, 1), Building(Vec(1, 0), 0, 2)>>

\* tryPlace: the entities a template is made of
TemplateEntities ==
    {Entity(0, Vec(0, 0), 0, 0, 1), Entity(0, Vec(0, 0), 0, 0, 2),
     Entity(0, Vec(1, 0), 0, 0, 2)}

InitPlace ==
    /\ Quiet
    /\ entities \in SeqsUpTo(TemplateEntities, MaxEntities)
    /\ constructed = entities
    /\ economy = NoEconomy
    /\ \E bs \in Worlds(PlaceCandidates, 2) : InWorld(bs)

NextPlace ==
    \/ \E t \in Anchors : TryPlace(t)
    \/ BulkEnter
    \/ ImmEnter
    \/ PlaceLoop
    \/ PlaceCheck
    \/ PlaceClone
    \/ PlaceTranslate
    \/ PlaceFree
    \/ PlaceStatic
    \/ PlaceRegister
    \/ PlaceInc
    \/ PlaceDispatch
    \/ PlaceReturn
    \/ ImmExit
    \/ BulkExit

\* tryPlace with collaborators that keep their contracts
SpecPlace == InitPlace /\ [][NextPlace]_vars

NextPlaceFault == NextPlace \/ CollaboratorThrows

\* tryPlace with collaborators that may raise an error
SpecPlaceFault == InitPlace /\ [][NextPlaceFault]_vars

----------------------------------------------------------------------------
(* Properties of tryPlace *)

\* The positions in the trace of the calls named name
Events(name) == {n \in DOMAIN trace : trace[n].ev = name}

\* ... made for template entity k
EventsFor(name, k) == {n \in Events(name) : trace[n].i = k}

\* tryPlace has returned a value
Returned == pc = "idle" /\ ret.kind = "bool"

\* tryPlace is over, by a return or by an error
Finished == pc = "idle" /\ ret.kind \in {"bool", "threw"}

\* The feasibility check of template entity k succeeded at its turn
WasFeasible(k) == \E n \in EventsFor("check", k) : trace[n].arg = 1

\* The clones put into the static map / the registry by this call
PlacedClones == {trace[n].arg : n \in Events("placeStatic")}
RegisteredClones == {trace[n].arg : n \in Events("register")}

\* Heap object r stands in the world: on every tile of its footprint and in
\* the registry
Present(r) ==
    /\ r \in registry
    /\ \A t \in Footprint(heap[r]) : LayerContent(t) = r

\* C1: when tryPlace returns, every template entity was checked once, each
\* entity whose check succeeded got exactly one clone (the entity moved by
\* tile) inserted into the map and the registry, the others got none, and
\* the value returned is TRUE iff at least one clone was inserted
C1_InsertsOnePerFeasible ==
    Returned =>
        /\ \A k \in 1 .. Len(entities) :
            /\ Cardinality(EventsFor("check", k)) = 1
            /\ Cardinality(EventsFor("placeStatic", k)) = (IF WasFeasible(k) THEN 1 ELSE 0)
            /\ Cardinality(EventsFor("register", k)) = (IF WasFeasible(k) THEN 1 ELSE 0)
            /\ \A n \in EventsFor("placeStatic", k) :
                /\ heap[trace[n].arg].origin = VecAdd(entities[k].origin, tile)
                /\ heap[trace[n].arg].code = entities[k].code
        /\ Cardinality(Events("placeStatic")) = Cardinality(PlacedClones)
        /\ \A n \in Events("placeStatic") \cup Events("register") :
            trace[n].i \in 1 .. Len(entities)
        /\ ret.bool = (Cardinality(Events("placeStatic")) # 0)

\* C1 witness: 2 of 3 entities were feasible, 2 clones inserted, TRUE returned
C1_Witness ==
    /\ Returned
    /\ Len(entities) = 3
    /\ Cardinality(PlacedClones) = 2
    /\ Cardinality({k \in 1 .. 3 : WasFeasible(k)}) = 2
    /\ ret.bool

\* C2: when tryPlace returns, bulkAchievementCheck was dispatched exactly
\* once, after every entity was processed, with the number of placed
\* entities as both counts (0 if none was placed or the template is empty);
\* it is never dispatched twice
C2_DispatchOnce ==
    /\ Cardinality(Events("dispatch")) <= 1
    /\ Returned =>
        /\ Cardinality(Events("dispatch")) = 1
        /\ \A d \in Events("dispatch") :
            /\ trace[d].i = Cardinality(RegisteredClones)
            /\ trace[d].arg = Cardinality(RegisteredClones)
            /\ \A n \in DOMAIN trace :
                trace[n].ev \in {"check", "clone", "translate", "free", "placeStatic",
                                 "register"} => n < d

\* C2 witness: a template of three entities, none feasible: dispatched once
\* with count 0
C2_Witness ==
    /\ Returned
    /\ Len(entities) = 3
    /\ PlacedClones = {}
    /\ \E d \in Events("dispatch") : trace[d].arg = 0

\* C3: the batched scope is opened once, before the first feasibility check,
\* and closed once, after the dispatch; every check, clearing, insertion and
\* the dispatch happen while it is open; when tryPlace is over, by a return
\* or by an error raised in the loop body, it has been closed exactly once
C3_ScopedBatch ==
    /\ Cardinality(Events("bulkOpen")) <= 1
    /\ Cardinality(Events("bulkClose")) <= 1
    /\ pc \in BodyPcs \cup {"loop", "inc", "return"} => bulkOperationRunning
    /\ \A n \in DOMAIN trace :
        trace[n].ev \in {"check", "free", "placeStatic", "register", "dispatch", "throw"} =>
            /\ \E o \in Events("bulkOpen") : o < n
            /\ \A c \in Events("bulkClose") : n < c
    /\ Finished =>
        /\ Cardinality(Events("bulkOpen")) = 1
        /\ Cardinality(Events("bulkClose")) = 1
        /\ trace[Len(trace)].ev = "bulkClose"
        /\ ~bulkOperationRunning
    /\ pc = "idle" => ~bulkOperationRunning

\* C3 witness: an error was raised after a clone had been inserted, and the
\* scope is closed
C3_Witness ==
    /\ Finished
    /\ ret.kind = "threw"
    /\ PlacedClones # {}
    /\ Events("bulkClose") # {}
    /\ ~bulkOperationRunning

\* The calls made for one feasible entity, in order
PlacementSteps == <<"check", "clone", "translate", "free", "placeStatic", "register">>

\* C4: the calls made for a feasible entity are, without any other call in
\* between: check, clone, translate by tile, freeEntityAreaBeforeBuild,
\* placeStaticEntity, registerEntity, all on the same clone; so when tryPlace
\* returns the clones added to the static map are those added to the registry
C4_PlacementOrder ==
    /\ \A n \in DOMAIN trace : \A s \in 2 .. 6 :
        trace[n].ev = PlacementSteps[s] =>
            /\ n > 1
            /\ trace[n - 1].ev = PlacementSteps[s - 1]
            /\ trace[n - 1].i = trace[n].i
            /\ s = 2 => trace[n - 1].arg = 1
            /\ s > 2 => trace[n - 1].arg = trace[n].arg
    /\ \A n \in Events("translate") :
        heap[trace[n].arg].origin = VecAdd(entities[trace[n].i].origin, tile)
    /\ \A n \in Events("check") :
        (trace[n].arg = 1 /\ pc \in {"loop", "dispatch", "return", "immExit", "bulkExit", "idle"})
            => /\ n + 5 <= Len(trace)
               /\ \A s \in 2 .. 6 : trace[n + s - 1].ev = PlacementSteps[s]
    /\ Returned => PlacedClones = RegisteredClones

\* C4 witness: two entities were placed one after the other
C4_Witness ==
    /\ Returned
    /\ Cardinality(PlacedClones) = 2
    /\ PlacedClones = RegisteredClones

\* C5 as stated: when tryPlace returns, every clone it inserted is still in
\* the static map and the registry
C5_AllInsertedStay == Returned => \A r \in RegisteredClones : Present(r)

\* Clone r was cleared as a removable obstruction of a later, feasible entity
\* of the same template whose footprint overlaps it
ReplacedByLater(r) ==
    /\ IsRemovable(heap[r].code)
    /\ \E n \in Events("register") : \E m \in Events("free") :
        /\ trace[n].arg = r
        /\ n < m
        /\ trace[m].i > trace[n].i
        /\ Footprint(heap[trace[m].arg]) \cap Footprint(heap[r]) # {}

\* C5 amended: tryPlace never rolls back: at every point of the call and
\* when it returns, a clone inserted earlier is still in the static map and
\* the registry, however many later entities were infeasible, unless a later
\* feasible entity overlapping it cleared it as a removable obstruction
C5_NoRollback ==
    \A r \in RegisteredClones : Present(r) \/ ReplacedByLater(r)

\* C5 witness: the first entity was placed, the later two were infeasible,
\* and the first is still there
C5_Witness ==
    /\ Returned
    /\ Len(entities) = 3
    /\ WasFeasible(1) /\ ~WasFeasible(2) /\ ~WasFeasible(3)
    /\ \A r \in RegisteredClones : Present(r)

----------------------------------------------------------------------------
(* Blueprint.deserialize(root, json)                                       *)

\* JavaScript values as they reach deserialize
Undefined == [t |-> "undefined"]
Null == [t |-> "null"]
Num(n) == [t |-> "number", v |-> n]
Str(c) == [t |-> "string", v |-> c]
Obj(fields) == [t |-> "object", f |-> fields]
Arr(elems) == [t |-> "array", e |-> elems]
EmptyObj == Obj([name \in {} |-> Undefined])

\* typeof v
TypeOf(v) == IF v.t \in {"null", "object", "array"} THEN "object" ELSE v.t

\* v == undefined
LooseUndefined(v) == v.t \in {"undefined", "null"}

\* Reading a property of v raises a TypeError
ReadThrows(v) == v.t \in {"undefined", "null"}

\* v[name], where reading does not throw
Get(v, name) ==
    IF v.t = "object" /\ name \in DOMAIN v.f THEN v.f[name] ELSE Undefined

\* A serialized origin {x, y}
JsonVec(x, y) == Obj([x |-> Num(x), y |-> Num(y)])

\* A serialized entity: components.StaticMapEntity of the given fields
JsonEntity(staticFields) == Obj([components |-> Obj([StaticMapEntity |-> Obj(staticFields)])])

\* SerializerInternal.deserializeEntity(root, value): the entity, or an error
\* string where the value cannot be reconstructed (unknown code, bad placement)
DeserializeEntity(value) ==
    LET sd == Get(Get(value, "components"), "StaticMapEntity")
        code == Get(sd, "code")
        origin == Get(sd, "origin")
        rotation == Get(sd, "rotation")
        original == Get(sd, "originalRotation")
        isNum(v) == v.t = "number"
    IN  IF /\ isNum(code) /\ code.v \in KnownCodes
           /\ isNum(Get(origin, "x")) /\ isNum(Get(origin, "y"))
           /\ isNum(rotation) /\ isNum(original)
        THEN [ok |-> TRUE,
              entity |-> Entity(0, Vec(Get(origin, "x").v, Get(origin, "y").v),
                                rotation.v, original.v, code.v)]
        ELSE [ok |-> FALSE, entity |-> Entity(0, Vec(0, 0), 0, 0, 0)]

\* The body of the for loop on one element: "throw" (a TypeError, or the
\* Error made from deserializeEntity's string), "void" (a bare return) or
\* "push"
ElementOutcome(value) ==
    IF ReadThrows(value) THEN "throw"
    ELSE IF \/ LooseUndefined(Get(value, "components"))
            \/ LooseUndefined(Get(Get(value, "components"), "StaticMapEntity"))
    THEN "void"
    ELSE LET staticData == Get(Get(value, "components"), "StaticMapEntity") IN
         IF LooseUndefined(Get(staticData, "code")) \/ LooseUndefined(Get(staticData, "origin"))
         THEN "void"
         ELSE IF ~DeserializeEntity(value).ok THEN "throw"
         ELSE "push"

\* deserialize is called: the two tests on json, then const entityArray = []
Deserialize(j) ==
    /\ pc = "idle" /\ calls = 0
    /\ json' = j
    /\ entityArray' = <<>>
    /\ logged' = 0
    /\ trace' = <<>>
    /\ i' = 1
    /\ IF TypeOf(j) # "object" \/ j.t # "array"
       THEN pc' = "idle" /\ ret' = VoidRet /\ calls' = calls + 1
       ELSE pc' = "decodeLoop" /\ ret' = NoRet /\ calls' = calls
    /\ UNCHANGED <<entities, extraVars, worldVars, scopeVars, placeVars, uidsVars>>

\* Mutant: a malformed element ends the loop and what was decoded is returned
DecodeElement_Partial ==
    /\ pc = "decodeLoop" /\ i <= Len(json.e)
    /\ LET outcome == ElementOutcome(json.e[i]) IN
        CASE outcome = "throw" ->
                /\ pc' = "decodeCatch"
                /\ UNCHANGED <<entityArray, i, ret, calls>>
          [] outcome = "void" ->
                /\ pc' = "idle" /\ ret' = BlueprintRet(entityArray) /\ calls' = calls + 1
                /\ UNCHANGED <<entityArray, i>>
          [] OTHER ->
                /\ entityArray' = Append(entityArray, DeserializeEntity(json.e[i]).entity)
                /\ i' = i + 1
                /\ UNCHANGED <<pc, ret, calls>>
    /\ UNCHANGED <<entities, extraVars, worldVars, scopeVars, placeVars, json, logged, trace, uidsVars>>

\* One turn of the for loop
DecodeElement ==
    /\ pc = "decodeLoop" /\ i <= Len(json.e)
    /\ LET outcome == ElementOutcome(json.e[i]) IN
        CASE outcome = "throw" ->
                /\ pc' = "decodeCatch"
                /\ UNCHANGED <<entityArray, i, ret, calls>>
          [] outcome = "void" ->
                /\ pc' = "idle" /\ ret' = VoidRet /\ calls' = calls + 1
                /\ UNCHANGED <<entityArray, i>>
          [] OTHER ->
                /\ entityArray' = Append(entityArray, DeserializeEntity(json.e[i]).entity)
                /\ i' = i + 1
                /\ UNCHANGED <<pc, ret, calls>>
    /\ UNCHANGED <<entities, extraVars, worldVars, scopeVars, placeVars, json, logged, trace, uidsVars>>

\* return new Blueprint(entityArray);
DecodeReturn ==
    /\ pc = "decodeLoop" /\ i > Len(json.e)
    /\ ret' = BlueprintRet(entityArray)
    /\ calls' = calls + 1
    /\ pc' = "idle"
    /\ UNCHANGED <<entities, extraVars, worldVars, scopeVars, placeVars, i, trace, decodeVars, uidsVars>>

\* Mutant: the catch block swallows the error without logging it
DecodeCatch_Silent ==
    /\ pc = "decodeCatch"
    /\ ret' = VoidRet
    /\ calls' = calls + 1
    /\ pc' = "idle"
    /\ UNCHANGED <<entities, extraVars, worldVars, scopeVars, placeVars, i, trace, decodeVars, uidsVars>>

\* catch (e) { logger.error("Invalid blueprint data:", e.message); }
DecodeCatch ==
    /\ pc = "decodeCatch"
    /\ logged' = logged + 1
    /\ ret' = VoidRet
    /\ calls' = calls + 1
    /\ pc' = "idle"
    /\ UNCHANGED <<entities, extraVars, worldVars, scopeVars, placeVars, i, trace, json, entityArray,
                   uidsVars>>

\* The elements a json array is made of
JsonElements ==
    {Null,
     Num(5),
     EmptyObj,
     Obj([components |-> EmptyObj]),
     JsonEntity([origin |-> JsonVec(0, 0), rotation |-> Num(0), originalRotation |-> Num(0)]),
     JsonEntity([code |-> Num(1), rotation |-> Num(0), originalRotation |-> Num(0)]),
     JsonEntity([code |-> Num(9), origin |-> JsonVec(0, 0), rotation |-> Num(0),
                 originalRotation |-> Num(0)]),
     JsonEntity([code |-> Num(1), origin |-> JsonVec(0, 0), rotation |-> Num(0),
                 originalRotation |-> Num(0)]),
     JsonEntity([code |-> Num(2), origin |-> JsonVec(1, 0), rotation |-> Num(90),
                 originalRotation |-> Num(0)])}

\* The values given to deserialize
JsonInputs ==
    {Undefined, Null, Num(5), Str("x"), EmptyObj}
        \cup {Arr(es) : es \in SeqsUpTo(JsonElements, MaxJson)}

InitDecode ==
    /\ Quiet
    /\ entities = <<>>
    /\ constructed = entities
    /\ economy = NoEconomy
    /\ InWorld(<<>>)

NextDecode ==
    \/ \E j \in JsonInputs : Deserialize(j)
    \/ DecodeElement
    \/ DecodeReturn
    \/ DecodeCatch

SpecDecode == InitDecode /\ [][NextDecode]_vars

----------------------------------------------------------------------------
(* Properties of deserialize *)

\* The call of deserialize is over
Decoded == pc = "idle" /\ calls = 1

\* v is an object with a property name that is neither undefined nor null
Has(v, name) ==
    /\ v.t = "object"
    /\ name \in DOMAIN v.f
    /\ v.f[name].t \notin {"undefined", "null"}

\* Element e has components.StaticMapEntity with both code and origin
HasPlacement(e) ==
    /\ Has(e, "components")
    /\ Has(e.f.components, "StaticMapEntity")
    /\ Has(e.f.components.f.StaticMapEntity, "code")
    /\ Has(e.f.components.f.StaticMapEntity, "origin")

\* Element e is valid: well formed, and it can be reconstructed
ValidElement(e) == HasPlacement(e) /\ DeserializeEntity(e).ok

\* The first element of the json array that is not valid
FirstInvalid == CHOOSE k \in 1 .. Len(json.e) :
    /\ ~ValidElement(json.e[k])
    /\ \A m \in 1 .. (k - 1) : ValidElement(json.e[m])

\* C6: deserialize never throws, and it returns a Blueprint iff json is an
\* array whose every element has components.StaticMapEntity with code and
\* origin and is reconstructed; the Blueprint then holds every element, in
\* order; otherwise nothing is returned, never a part of the template
C6_AtomicDecode ==
    /\ ret.kind # "threw"
    /\ Decoded =>
        /\ ret.kind \in {"blueprint", "void"}
        /\ ret.kind = "blueprint" <=>
            (json.t = "array" /\ \A k \in 1 .. Len(json.e) : ValidElement(json.e[k]))
        /\ ret.kind = "blueprint" =>
            /\ Len(ret.entities) = Len(json.e)
            /\ \A k \in 1 .. Len(json.e) :
                ret.entities[k] = DeserializeEntity(json.e[k]).entity
        /\ ret.kind = "void" => ret.entities = <<>>

\* C6 witness: [validSnapshot, {}] was decoded to nothing
C6_Witness ==
    /\ Decoded
    /\ json.t = "array"
    /\ Len(json.e) = 2
    /\ ValidElement(json.e[1])
    /\ json.e[2] = EmptyObj
    /\ ret.kind = "void"

----------------------------------------------------------------------------
(* Blueprint.fromUids(root, uids)                                          *)

\* root.entityMgr.findByUid(uid): the reference of the live entity, 0 if none
FindByUid(uid) ==
    IF \E r \in registry : heap[r].uid = uid
    THEN CHOOSE r \in registry : heap[r].uid = uid
    ELSE 0

\* fromUids is called: const newEntities = []; let averagePosition = new Vector();
FromUids(us) ==
    /\ pc = "idle" /\ calls = 0
    /\ uids' = us
    /\ newEntities' = <<>>
    /\ averagePosition' = [x |-> Rat(0, 1), y |-> Rat(0, 1)]
    /\ i' = 1
    /\ trace' = <<>>
    /\ ret' = NoRet
    /\ pc' = "uidsLoop"
    /\ UNCHANGED <<entities, extraVars, worldVars, scopeVars, placeVars, calls, decodeVars>>

\* Mutant: a uid that does not resolve is skipped
UidsCopy_SkipMissing ==
    /\ pc = "uidsLoop" /\ i <= Len(uids)
    /\ LET entity == FindByUid(uids[i]) IN
        IF entity = 0
        THEN /\ i' = i + 1
             /\ UNCHANGED <<pc, ret, calls, newEntities, averagePosition>>
        ELSE LET pos == RectCenter(TileSpaceBounds(heap[entity])) IN
             /\ newEntities' = Append(newEntities, CloneEntity(heap[entity]))
             /\ averagePosition' = [x |-> RatAdd(averagePosition.x, pos.x),
                                   y |-> RatAdd(averagePosition.y, pos.y)]
             /\ i' = i + 1
             /\ UNCHANGED <<pc, ret, calls>>
    /\ UNCHANGED <<entities, extraVars, worldVars, scopeVars, placeVars, uids, trace, decodeVars>>

\* Mutant: the origin of the entity is averaged, not the center of its bounds
UidsCopy_AveragesOrigin ==
    /\ pc = "uidsLoop" /\ i <= Len(uids)
    /\ LET entity == FindByUid(uids[i]) IN
        IF entity = 0
        THEN /\ ret' = ThrewRet /\ calls' = calls + 1 /\ pc' = "idle"
             /\ UNCHANGED <<newEntities, averagePosition, i>>
        ELSE LET pos == [x |-> Rat(heap[entity].origin.x, 1),
                         y |-> Rat(heap[entity].origin.y, 1)] IN
             /\ newEntities' = Append(newEntities, CloneEntity(heap[entity]))
             /\ averagePosition' = [x |-> RatAdd(averagePosition.x, pos.x),
                                   y |-> RatAdd(averagePosition.y, pos.y)]
             /\ i' = i + 1
             /\ UNCHANGED <<pc, ret, calls>>
    /\ UNCHANGED <<entities, extraVars, worldVars, scopeVars, placeVars, uids, trace, decodeVars>>

\* One turn of the first loop: find the entity, assert it was found, clone
\* it, add the center of its tile-space bounds to averagePosition
UidsCopy ==
    /\ pc = "uidsLoop" /\ i <= Len(uids)
    /\ LET entity == FindByUid(uids[i]) IN
        IF entity = 0
        THEN /\ ret' = ThrewRet /\ calls' = calls + 1 /\ pc' = "idle"
             /\ UNCHANGED <<newEntities, averagePosition, i>>
        ELSE LET pos == RectCenter(TileSpaceBounds(heap[entity])) IN
             /\ newEntities' = Append(newEntities, CloneEntity(heap[entity]))
             /\ averagePosition' = [x |-> RatAdd(averagePosition.x, pos.x),
                                   y |-> RatAdd(averagePosition.y, pos.y)]
             /\ i' = i + 1
             /\ UNCHANGED <<pc, ret, calls>>
    /\ UNCHANGED <<entities, extraVars, worldVars, scopeVars, placeVars, uids, trace, decodeVars>>

\* origin.subInplace(blueprintOrigin): NaN where blueprintOrigin is NaN
SubOrigin(e, bo) ==
    [e EXCEPT !.origin = Vec(@.x - bo.x.n, @.y - bo.y.n)]

\* Mutant: the anchor is floor(mean), the half tile is not taken off
UidsRecenter_NoHalf ==
    /\ pc = "uidsLoop" /\ i > Len(uids)
    /\ LET mean == [x |-> RatDivInt(averagePosition.x, Len(uids)),
                    y |-> RatDivInt(averagePosition.y, Len(uids))]
           blueprintOrigin == [x |-> RatFloor(mean.x), y |-> RatFloor(mean.y)]
       IN
        /\ averagePosition' = mean
        /\ newEntities' = [k \in 1 .. Len(newEntities) |->
                              SubOrigin(newEntities[k], blueprintOrigin)]
        /\ ret' = BlueprintRet(newEntities')
    /\ calls' = calls + 1
    /\ pc' = "idle"
    /\ UNCHANGED <<entities, extraVars, worldVars, scopeVars, placeVars, i, uids, trace, decodeVars>>

\* After the first loop: averagePosition.divideScalarInplace(uids.length);
\* blueprintOrigin = averagePosition.subScalars(0.5, 0.5).floor(); every new
\* entity's origin.subInplace(blueprintOrigin); return new Blueprint(newEntities)
UidsRecenter ==
    /\ pc = "uidsLoop" /\ i > Len(uids)
    /\ LET mean == [x |-> RatDivInt(averagePosition.x, Len(uids)),
                    y |-> RatDivInt(averagePosition.y, Len(uids))]
           blueprintOrigin == [x |-> RatFloor(RatSubHalf(mean.x)),
                               y |-> RatFloor(RatSubHalf(mean.y))]
       IN
        /\ averagePosition' = mean
        /\ newEntities' = [k \in 1 .. Len(newEntities) |->
                              SubOrigin(newEntities[k], blueprintOrigin)]
        /\ ret' = BlueprintRet(newEntities')
    /\ calls' = calls + 1
    /\ pc' = "idle"
    /\ UNCHANGED <<entities, extraVars, worldVars, scopeVars, placeVars, i, uids, trace, decodeVars>>

\* fromUids: the buildings that may stand in the world
UidsCandidates ==
    <<Building(Vec(2, 2), 0, 2), Building(Vec(3, 2), 0, 2), Building(Vec(2, 3), 0, 2),
      Building(Vec(-2, 2), 0, 2), Building(Vec(-1, 2), 180, 1),
      Building(Vec(2, 2), 0, 3), Building(Vec(-2, 2), 90, 3)>>

InitUids ==
    /\ Quiet
    /\ entities = <<>>
    /\ constructed = entities
    /\ economy = NoEconomy
    /\ \E bs \in Worlds(UidsCandidates, MaxLive) : InWorld(bs)

\* The uids of the live entities and one uid that resolves to nothing
SelectableUids == FirstUid .. nextUid

NextUids ==
    \/ \E us \in SeqsUpTo(SelectableUids, MaxUids) : FromUids(us)
    \/ UidsCopy
    \/ UidsRecenter

SpecUids == InitUids /\ [][NextUids]_vars

----------------------------------------------------------------------------
(* Properties of fromUids *)

\* The call of fromUids is over
UidsDone == pc = "idle" /\ calls = 1

\* ... and it returned a Blueprint
Built == UidsDone /\ ret.kind = "blueprint"

\* The live entity selected by the k-th uid
Live(k) == heap[FindByUid(uids[k])]

\* f[1] + ... + f[n]
RECURSIVE SumTo(_, _)
SumTo(f, n) == IF n = 0 THEN 0 ELSE f[n] + SumTo(f, n - 1)

\* Twice the center of the tile-space bounds of e, an integer vector
DoubledCenter(e) ==
    LET r == TileSpaceBounds(e) IN Vec(2 * r.x + r.w, 2 * r.y + r.h)

\* a = floor(s / (2 n) - 1/2), where s is the sum of n doubled coordinates
IsAnchor(a, s, n) == 2 * n * a <= s - n /\ s - n < 2 * n * (a + 1)

Coordinates == -12 .. 12

\* C8: for a non-empty selection of resolvable uids the template holds one
\* clone per uid, in input order, whose origin is the live entity's origin
\* minus one anchor, the anchor being floor(mean of the centers of the
\* tile-space bounds - (0.5, 0.5)); so the centers of the result add up to
\* those of the selection moved by the negated anchor
C8_RecenteredByAnchor ==
    (Built /\ Len(uids) > 0) =>
        LET n == Len(uids)
            sx == SumTo([k \in 1 .. n |-> DoubledCenter(Live(k)).x], n)
            sy == SumTo([k \in 1 .. n |-> DoubledCenter(Live(k)).y], n)
        IN  /\ Len(ret.entities) = n
            /\ \E ax, ay \in Coordinates :
                /\ IsAnchor(ax, sx, n) /\ IsAnchor(ay, sy, n)
                /\ \A k \in 1 .. n :
                    /\ ret.entities[k].origin = VecSub(Live(k).origin, Vec(ax, ay))
                    /\ ret.entities[k].code = Live(k).code
                    /\ ret.entities[k].rotation = Live(k).rotation
                    /\ ret.entities[k].originalRotation = Live(k).originalRotation
                /\ SumTo([k \in 1 .. n |-> DoubledCenter(ret.entities[k]).x], n)
                        = sx - 2 * n * ax
                /\ SumTo([k \in 1 .. n |-> DoubledCenter(ret.entities[k]).y], n)
                        = sy - 2 * n * ay

\* C8 witness: three distinct entities, one two tiles wide, one left of x = 0
C8_Witness ==
    /\ Built
    /\ Len(uids) = 3
    /\ \E k \in 1 .. 3 : ret.entities[k].code = 3
    /\ \E k \in 1 .. 3 : Live(k).origin.x < 0
    /\ Cardinality({uids[k] : k \in 1 .. 3}) = 3

\* Single-tile entities at (2,2), (3,2), (2,3) were selected, in this order
ThreeTiles ==
    /\ Len(uids) = 3
    /\ \A k \in 1 .. 3 : FindByUid(uids[k]) # 0 /\ TileSize(Live(k).code) = Vec(1, 1)
    /\ Live(1).origin = Vec(2, 2) /\ Live(2).origin = Vec(3, 2) /\ Live(3).origin = Vec(2, 3)

\* C9 as stated: the anchor is (1,1) and the template's entities are at
\* (1,1), (2,1), (1,2)
C9_AnchorOneOne ==
    (Built /\ ThreeTiles) =>
        /\ ret.entities[1].origin = Vec(1, 1)
        /\ ret.entities[2].origin = Vec(2, 1)
        /\ ret.entities[3].origin = Vec(1, 2)

\* C9 amended: for single-tile entities at (2,2), (3,2), (2,3) the mean of
\* the centers is (17/6, 17/6), the anchor is (2,2) and the template's
\* entities are at (0,0), (1,0), (0,1), each component being >= 0
C9_AnchorTwoTwo ==
    (Built /\ ThreeTiles) =>
        /\ averagePosition = [x |-> Rat(17, 6), y |-> Rat(17, 6)]
        /\ \A k \in 1 .. 3 : VecSub(Live(k).origin, ret.entities[k].origin) = Vec(2, 2)
        /\ ret.entities[1].origin = Vec(0, 0)
        /\ ret.entities[2].origin = Vec(1, 0)
        /\ ret.entities[3].origin = Vec(0, 1)
        /\ \A k \in 1 .. 3 : ret.entities[k].origin.x >= 0 /\ ret.entities[k].origin.y >= 0

\* C9 witness: the template of that selection was built
C9_Witness == Built /\ ThreeTiles

\* Some uid of the selection resolves to no live entity
SomeMissing == \E k \in 1 .. Len(uids) : FindByUid(uids[k]) = 0

FirstMissing == CHOOSE k \in 1 .. Len(uids) :
    FindByUid(uids[k]) = 0 /\ \A m \in 1 .. (k - 1) : FindByUid(uids[m]) # 0

\* C10: if a uid resolves to no live entity, fromUids stops with the failed
\* assertion at that uid: the uids before it were cloned, none after it, and
\* no Blueprint is returned; otherwise it returns one
C10_MissingUidIsFatal ==
    UidsDone =>
        /\ SomeMissing =>
            /\ ret.kind = "threw"
            /\ ret.entities = <<>>
            /\ i = FirstMissing
            /\ Len(newEntities) = FirstMissing - 1
        /\ ~SomeMissing => ret.kind = "blueprint"

\* C10 witness: the second of three uids did not resolve, the third does
C10_Witness ==
    /\ UidsDone
    /\ Len(uids) = 3
    /\ FindByUid(uids[1]) # 0 /\ FindByUid(uids[2]) = 0 /\ FindByUid(uids[3]) # 0
    /\ ret.kind = "threw"

----------------------------------------------------------------------------
(* rotateCw and rotateCcw.  rotateCw is one loop over this.entities that  *)
(* touches nothing else, so a call is one step; rotateCcw is a loop of     *)
(* three rotateCw calls and is stepped on its index i.  history is the     *)
(* record of the calls: the operation and the entities it started from.    *)

\* Vector.rotateFastMultipleOf90: axis swap and sign flip
RotateFastMultipleOf90(v, angle) ==
    CASE angle = 90 -> Vec(-v.y, v.x)
      [] angle = 180 -> Vec(-v.x, -v.y)
      [] angle = 270 -> Vec(v.y, -v.x)
      [] OTHER -> Vec(v.x, v.y)

\* Mutant: originalRotation is left as it was
RotatedCw_NoOriginal(es) ==
    [k \in DOMAIN es |->
        [es[k] EXCEPT !.rotation = (@ + 90) % 360,
                      !.origin = RotateFastMultipleOf90(@, 90)]]

\* Mutant: the angles are advanced without the % 360
RotatedCw_NoWrap(es) ==
    [k \in DOMAIN es |->
        [es[k] EXCEPT !.rotation = @ + 90,
                      !.originalRotation = @ + 90,
                      !.origin = RotateFastMultipleOf90(@, 90)]]

\* Mutant: originalRotation is set to the new rotation
RotatedCw_OriginalFollows(es) ==
    [k \in DOMAIN es |->
        [es[k] EXCEPT !.rotation = (@ + 90) % 360,
                      !.originalRotation = (es[k].rotation + 90) % 360,
                      !.origin = RotateFastMultipleOf90(@, 90)]]

\* The entities after the for loop of rotateCw
RotatedCw(es) ==
    [k \in DOMAIN es |->
        [es[k] EXCEPT !.rotation = (@ + 90) % 360,
                      !.originalRotation = (@ + 90) % 360,
                      !.origin = RotateFastMultipleOf90(@, 90)]]

Call(op, before) == [op |-> op, before |-> before]

\* rotateCw()
RotateCw ==
    /\ pc = "idle" /\ calls < MaxTurns
    /\ entities' = RotatedCw(entities)
    /\ history' = Append(history, Call("cw", entities))
    /\ calls' = calls + 1
    /\ UNCHANGED <<constructed, advice, economy, afford, data, synthVars, worldVars,
                   scopeVars, placeVars, pc, i, ret, trace, decodeVars, uidsVars>>

\* rotateCcw() is called: for (let i = 0; ...
RotateCcw ==
    /\ pc = "idle" /\ calls < MaxTurns
    /\ history' = Append(history, Call("ccw", entities))
    /\ pc' = "ccw"
    /\ i' = 0
    /\ UNCHANGED <<entities, constructed, advice, economy, afford, data, synthVars,
                   worldVars, scopeVars, placeVars, calls, ret, trace, decodeVars,
                   uidsVars>>

\* Mutant: the last turn of the loop does not rotate
CcwTurn_Short ==
    /\ pc = "ccw" /\ i < 3
    /\ entities' = IF i < 2 THEN RotatedCw(entities) ELSE entities
    /\ i' = i + 1
    /\ UNCHANGED <<constructed, history, advice, economy, afford, data, synthVars,
                   worldVars, scopeVars, placeVars, pc, calls, ret, trace, decodeVars,
                   uidsVars>>

\* i < 3: this.rotateCw(); ++i
CcwTurn ==
    /\ pc = "ccw" /\ i < 3
    /\ entities' = RotatedCw(entities)
    /\ i' = i + 1
    /\ UNCHANGED <<constructed, history, advice, economy, afford, data, synthVars,
                   worldVars, scopeVars, placeVars, pc, calls, ret, trace, decodeVars,
                   uidsVars>>

\* The loop of rotateCcw is over
CcwReturn ==
    /\ pc = "ccw" /\ ~(i < 3)
    /\ pc' = "idle"
    /\ calls' = calls + 1
    /\ UNCHANGED <<entities, extraVars, worldVars, scopeVars, placeVars, i, ret, trace,
                   decodeVars, uidsVars>>

Angles == {0, 90, 180, 270}

\* The entities a rotated template is made of: every angle, origins on and
\* off the axes, a building of two tiles
RotateEntities ==
    {Entity(0, Vec(0, 0), 0, 0, 2), Entity(0, Vec(1, 0), 90, 0, 1),
     Entity(0, Vec(-1, 2), 270, 90, 3), Entity(0, Vec(2, -3), 180, 180, 1)}

InitRotate ==
    /\ Quiet
    /\ entities \in SeqsUpTo(RotateEntities, MaxRotated)
    /\ constructed = entities
    /\ economy = NoEconomy
    /\ InWorld(<<>>)

NextRotate ==
    \/ RotateCw
    \/ RotateCcw
    \/ CcwTurn
    \/ CcwReturn

SpecRotate == InitRotate /\ [][NextRotate]_vars

----------------------------------------------------------------------------
(* Properties of rotateCw and rotateCcw *)

\* The call history[k] has returned
CallDone(k) == k < Len(history) \/ pc = "idle"

\* The entities the call history[k] left behind
After(k) == IF k < Len(history) THEN history[k + 1].before ELSE entities

\* The calls k .. k + n - 1 are all rotateCw calls
CwRun(k, n) ==
    /\ k + n - 1 <= Len(history)
    /\ \A m \in k .. (k + n - 1) : history[m].op = "cw"

\* w is v turned by a quarter turn in the positive sense about (0, 0): the
\* same length, at a right angle, and on the positive side of v
QuarterTurn(v, w) ==
    /\ w.x * w.x + w.y * w.y = v.x * v.x + v.y * v.y
    /\ v.x * w.x + v.y * w.y = 0
    /\ v.x * w.y - v.y * w.x = v.x * v.x + v.y * v.y

\* C11: rotateCw leaves the number and the order of the entities as they
\* were and maps each entity by itself: its origin is turned by +90 degrees
\* about (0, 0), its rotation becomes (rotation + 90) mod 360 and its
\* originalRotation becomes (originalRotation + 90) mod 360.
C11_RotateCwPerEntity ==
    \A k \in DOMAIN history :
        history[k].op = "cw" =>
            LET b == history[k].before
                a == After(k)
            IN  /\ Len(a) = Len(b)
                /\ \A n \in DOMAIN b :
                    /\ QuarterTurn(b[n].origin, a[n].origin)
                    /\ a[n].rotation = (b[n].rotation + 90) % 360
                    /\ a[n].originalRotation = (b[n].originalRotation + 90) % 360
                    /\ a[n].code = b[n].code /\ a[n].uid = b[n].uid

C11_Witness ==
    \E k \in DOMAIN history :
        /\ history[k].op = "cw"
        /\ Len(history[k].before) = 2
        /\ history[k].before[1].origin # history[k].before[2].origin
        /\ history[k].before[1].rotation = 270
        /\ After(k)[1].rotation = 0
        /\ After(k)[1].origin # history[k].before[1].origin

\* C12: four rotateCw calls in a row give every entity the origin, the
\* rotation and the originalRotation it had before the first of them.
C12_FourTurnsIdentity ==
    \A k \in DOMAIN history : CwRun(k, 4) => After(k + 3) = history[k].before

C12_Witness ==
    \E k \in DOMAIN history :
        /\ CwRun(k, 4)
        /\ Len(history[k].before) = 2
        /\ After(k) # history[k].before
        /\ After(k + 3) = history[k].before

\* C13: a rotateCcw call leaves the template in the state that three
\* rotateCw calls in a row leave it in, when both start from the same
\* entities.
C13_CcwIsThreeCw ==
    \A a, b \in DOMAIN history :
        (/\ history[a].op = "ccw" /\ CallDone(a)
         /\ CwRun(b, 3)
         /\ history[b].before = history[a].before)
        => After(a) = After(b + 2)

C13_Witness ==
    \E a, b \in DOMAIN history :
        /\ history[a].op = "ccw" /\ CallDone(a)
        /\ CwRun(b, 3)
        /\ history[b].before = history[a].before
        /\ history[a].before # <<>>
        /\ After(a) # history[a].before

\* (rotation - originalRotation) mod 360
TurnedBy(e) == (e.rotation - e.originalRotation + 360) % 360

\* Every angle is a multiple of 90 in [0, 360) and every origin is a tile
OnGrid(es) ==
    \A n \in DOMAIN es :
        /\ es[n].rotation \in Angles /\ es[n].originalRotation \in Angles
        /\ es[n].origin.x \in Int /\ es[n].origin.y \in Int

\* C18: a template whose angles are multiples of 90 in [0, 360) and whose
\* origins are integer tiles is still such a template after any sequence
\* of rotateCw and rotateCcw calls, and (rotation - originalRotation) mod
\* 360 of every entity is what it was at construction.
C18_GridAndTurnKept ==
    (OnGrid(constructed) /\ pc = "idle") =>
        /\ OnGrid(entities)
        /\ Len(entities) = Len(constructed)
        /\ \A n \in DOMAIN constructed : TurnedBy(entities[n]) = TurnedBy(constructed[n])

C18_Witness ==
    /\ pc = "idle" /\ calls >= 3
    /\ \E a, b \in DOMAIN history : history[a].op = "cw" /\ history[b].op = "ccw"
    /\ \E n \in DOMAIN entities :
        /\ TurnedBy(entities[n]) = 180
        /\ entities[n].rotation = 0
        /\ constructed[n].rotation = 270

----------------------------------------------------------------------------
(* canPlace(root, tile): a loop of checkCanPlaceEntity calls that writes   *)
(* nothing but its local anyPlaceable, so a call is one step.              *)

\* Mutant: every entity has to be placeable
AnyPlaceable_All(es, t, k, anyPlaceable) ==
    \A n \in k .. Len(es) : CheckCanPlaceEntity(es[n], t)

\* Mutant: the flag is assigned the result of every check
AnyPlaceable_LastWins(es, t, k, anyPlaceable) ==
    IF Len(es) < k THEN anyPlaceable ELSE CheckCanPlaceEntity(es[Len(es)], t)

\* The for loop of canPlace from index k on, anyPlaceable being the flag so far
RECURSIVE AnyPlaceable(_, _, _, _)
AnyPlaceable(es, t, k, anyPlaceable) ==
    IF k > Len(es) THEN anyPlaceable
    ELSE AnyPlaceable(es, t, k + 1,
                      IF CheckCanPlaceEntity(es[k], t) THEN TRUE ELSE anyPlaceable)

\* canPlace(root, t)
CanPlace(t) ==
    /\ pc = "idle" /\ calls < MaxCalls
    /\ advice' = [state |-> "asked", tile |-> t,
                  value |-> AnyPlaceable(entities, t, 1, FALSE),
                  at |-> calls, world |-> worldVars]
    /\ UNCHANGED <<entities, constructed, history, economy, afford, data, synthVars,
                   worldVars, scopeVars, placeVars, pc, i, ret, calls, trace,
                   decodeVars, uidsVars>>

InitAdvice ==
    /\ Quiet
    /\ entities \in SeqsUpTo(TemplateEntities, MaxAdvised)
    /\ constructed = entities
    /\ economy = NoEconomy
    /\ \E bs \in Worlds(PlaceCandidates, 2) : InWorld(bs)

NextAdvice ==
    \/ NextPlace
    \/ \E t \in Anchors : CanPlace(t)

SpecAdvice == InitAdvice /\ [][NextAdvice]_vars

----------------------------------------------------------------------------
(* Properties of canPlace, and of canPlace and tryPlace together *)

\* canPlace returns in this step
CanPlaceReturns == advice' # advice

\* Entity k of the template can be placed at tile t in the present world
PlaceableAt(k, t) == CheckCanPlaceEntity(entities[k], t)

\* C14: canPlace(root, tile) returns true exactly when at least one entity
\* of the template can be placed at the tile by itself (any, not all), so it
\* returns false for an empty template; the call changes neither the world
\* nor the template.
C14_CanPlaceIsAny ==
    [][CanPlaceReturns =>
        /\ advice'.value = (\E k \in DOMAIN entities : PlaceableAt(k, advice'.tile))
        /\ (entities = <<>> => advice'.value = FALSE)
        /\ UNCHANGED <<entities, worldVars>>]_vars

\* canPlace has just said yes to a template of which one entity cannot be placed
C14_Witness ==
    /\ pc = "idle" /\ advice.state = "asked" /\ advice.at = calls
    /\ advice.value = TRUE
    /\ \E k \in DOMAIN entities : ~PlaceableAt(k, advice.tile)
    /\ \E k \in DOMAIN entities : PlaceableAt(k, advice.tile)

\* C17: tryPlace leaves the template as it was constructed, so in every
\* call, the second as the first, each clone is inserted at the local
\* origin of its entity plus the tile of that call.
C17_TemplateReusable ==
    /\ entities = constructed
    /\ \A n \in Events("placeStatic") :
        heap[trace[n].arg].origin = VecAdd(constructed[trace[n].i].origin, tile)

\* The second call, at (0, 0), has inserted a clone at (0, 0) while a clone
\* of the first call, at (1, 0), stands at (2, 0)
C17_Witness ==
    /\ Returned /\ calls = 2 /\ tile = Vec(0, 0)
    /\ \E r \in DOMAIN heap : heap[r].origin = Vec(2, 0)
    /\ \E c \in PlacedClones : heap[c].origin = Vec(0, 0)

\* tryPlace has returned, and the call before it was canPlace with the same tile
AskedThenPlaced ==
    /\ Returned
    /\ advice.state = "asked" /\ advice.at + 1 = calls /\ advice.tile = tile

\* C19: when canPlace(root, tile) is followed at once by tryPlace(root,
\* tile), tryPlace returns what canPlace returned; when that is false, the
\* world after tryPlace is the world before it.
C19_CanPlaceAgreesWithTryPlace ==
    AskedThenPlaced =>
        /\ ret.bool = advice.value
        /\ (~advice.value => worldVars = advice.world)

\* Both answers have been seen: here the yes, after a first placement
C19_Witness ==
    /\ AskedThenPlaced
    /\ calls = 2 /\ advice.value = TRUE /\ ret.bool = TRUE
    /\ \E k \in DOMAIN entities : EventsFor("placeStatic", k) = {}

\* ... and here the no
C19_WitnessRefused ==
    /\ AskedThenPlaced
    /\ advice.value = FALSE /\ ret.bool = FALSE /\ entities # <<>>

----------------------------------------------------------------------------
(* getCost() and canAfford(root).  economy is what the two read of the    *)
(* game: free is root.gameMode.getHasFreeCopyPaste(), key is               *)
(* root.gameMode.getBlueprintShapeKey(), storedShapes is the hub's store,  *)
(* noCost is G_IS_DEV && globalConfig.debug.blueprintsNoCost.              *)

ShapeKeys == {"CbCbCbRb:CwCwCwCw", "CuCuCuCu"}

\* findNiceIntegerValue(4 * Math.pow(n, 1.1)).  4 * n^1.1 is irrational
\* from n = 2 on; the values are those of the step table: the floor to a
\* multiple of 1 up to 20 and of 5 above
NiceCost(n) ==
    CASE n = 0 -> 0
      [] n = 1 -> 4
      [] n = 2 -> 8
      [] n = 3 -> 13
      [] n = 4 -> 18
      [] n = 5 -> 20
      [] n = 6 -> 25
      [] n = 7 -> 30
      [] OTHER -> 35

\* getCost()
GetCost == IF economy.noCost THEN 0 ELSE NiceCost(Len(entities))

\* HubGoals.getShapesStoredByKey: this.storedShapes[key] || 0
GetShapesStoredByKey(key) ==
    IF key \in DOMAIN economy.storedShapes THEN economy.storedShapes[key] ELSE 0

\* Mutant: the balance has to exceed the cost
CanAffordValue_Exceeds ==
    IF economy.free THEN TRUE
    ELSE GetShapesStoredByKey(economy.key) > GetCost

\* Mutant: free copy and paste is not looked at
CanAffordValue_NeverFree ==
    GetShapesStoredByKey(economy.key) >= GetCost

\* The value canAfford returns
CanAffordValue ==
    IF economy.free THEN TRUE
    ELSE GetShapesStoredByKey(economy.key) >= GetCost

\* canAfford(root)
CanAfford ==
    /\ pc = "idle"
    /\ afford' = [state |-> "asked", value |-> CanAffordValue]
    /\ UNCHANGED <<entities, constructed, history, advice, economy, data, synthVars,
                   worldVars, scopeVars, placeVars, pc, i, ret, calls, trace,
                   decodeVars, uidsVars>>

\* The hub takes in one more shape of one key
Deliver(key) ==
    /\ pc = "idle"
    /\ GetShapesStoredByKey(key) < MaxStored
    /\ economy' = [economy EXCEPT !.storedShapes[key] = @ + 1]
    /\ afford' = [state |-> "none", value |-> FALSE]
    /\ UNCHANGED <<entities, constructed, history, advice, data, synthVars,
                   worldVars, scopeVars, placeVars, pc, i, ret, calls, trace,
                   decodeVars, uidsVars>>

\* The balances the hub starts with: around every cost
StartAmounts == {0, 3, 4, 8, 13, 18}

InitAfford ==
    /\ Quiet
    /\ entities \in SeqsUpTo({Entity(0, Vec(0, 0), 0, 0, 2)}, MaxEntities)
    /\ constructed = entities
    /\ economy \in [free : BOOLEAN, noCost : BOOLEAN, key : ShapeKeys,
                    storedShapes : [ShapeKeys -> StartAmounts]]
    /\ InWorld(<<>>)

NextAfford ==
    \/ CanAfford
    \/ \E key \in ShapeKeys : Deliver(key)

SpecAfford == InitAfford /\ [][NextAfford]_vars

\* canAfford returns in this step
CanAffordReturns == afford' # afford /\ afford'.state = "asked"

\* C15: canAfford returns true whenever the game mode gives copy and paste
\* for free, whatever the balance and the cost; otherwise it returns true
\* exactly when the stored amount of the blueprint shape key is at least
\* getCost().  The call changes neither the balance nor the template.
C15_CanAfford ==
    [][CanAffordReturns =>
        /\ (economy.free => afford'.value = TRUE)
        /\ (~economy.free =>
                afford'.value = (GetShapesStoredByKey(economy.key) >= GetCost))
        /\ UNCHANGED <<economy, entities>>]_vars

\* A paid game whose balance is exactly the cost of three entities, met
\* after deliveries
C15_Witness ==
    /\ afford.state = "asked" /\ afford.value = TRUE
    /\ ~economy.free /\ ~economy.noCost
    /\ Len(entities) = 3
    /\ GetShapesStoredByKey(economy.key) = 13
    /\ \E key \in ShapeKeys : key # economy.key /\ GetShapesStoredByKey(key) < 13

\* Copy and paste is free and the balance is below the cost
C15_WitnessFree ==
    /\ afford.state = "asked" /\ afford.value = TRUE
    /\ economy.free /\ GetShapesStoredByKey(economy.key) < GetCost

----------------------------------------------------------------------------
(* serialize(), and deserialize of what it returns.  The loop of serialize *)
(* writes only to the records the serializer has just made, so a call is   *)
(* one step.                                                               *)

\* The buildings that carry a WiredPins component
HasWiredPins(code) == code = 3

\* The serialized StaticMapEntity component of an entity
SerializedStatic(e) ==
    Obj([origin |-> JsonVec(e.origin.x, e.origin.y), rotation |-> Num(e.rotation),
         originalRotation |-> Num(e.originalRotation), code |-> Num(e.code)])

\* The serialized WiredPins component: one slot without a value
SerializedPins == Obj([slots |-> Arr(<<Obj([value |-> Null])>>)])

\* SerializerInternal.serializeEntityArray: a fresh record {uid, components}
\* for each entity, in order
SerializeEntityArray(es) ==
    [k \in DOMAIN es |->
        Obj([uid |-> Num(es[k].uid),
             components |->
                IF HasWiredPins(es[k].code)
                THEN Obj([StaticMapEntity |-> SerializedStatic(es[k]),
                          WiredPins |-> SerializedPins])
                ELSE Obj([StaticMapEntity |-> SerializedStatic(es[k])])])]

\* delete v[name]
Delete(v, name) == Obj([n \in DOMAIN v.f \ {name} |-> v.f[n]])

\* Mutant: the uid is left in the entry
StripEntry_KeepsUid(entry) ==
    [entry EXCEPT !.f.components = Delete(@, "WiredPins")]

\* Mutant: the components of a wired entity are deleted as a whole
StripEntry_DropsWired(entry) ==
    IF "WiredPins" \in DOMAIN entry.f.components.f
    THEN Delete(Delete(entry, "uid"), "components")
    ELSE Delete(entry, "uid")

\* delete entry.uid; delete entry.components.WiredPins;
StripEntry(entry) ==
    [Delete(entry, "uid") EXCEPT !.f.components = Delete(@, "WiredPins")]

\* serialize()
Serialize ==
    /\ pc = "idle"
    /\ LET serialized == SerializeEntityArray(entities) IN
        data' = Arr([k \in DOMAIN serialized |-> StripEntry(serialized[k])])
    /\ UNCHANGED <<entities, constructed, history, advice, economy, afford, synthVars,
                   worldVars, scopeVars, placeVars, pc, i, ret, calls, trace,
                   decodeVars, uidsVars>>

\* What deserialize is given: the value serialize returned, as it is or
\* with a null entry after its last
Reloads == IF data.t = "array" THEN {data, Arr(Append(data.e, Null))} ELSE {}

\* The entities a serialized template is made of: with and without a uid,
\* with and without wired pins
CodecEntities ==
    {Entity(7, Vec(0, 0), 0, 0, 1), Entity(8, Vec(-1, 2), 90, 0, 3),
     Entity(0, Vec(1, 0), 270, 180, 2)}

InitCodec ==
    /\ Quiet
    /\ entities \in SeqsUpTo(CodecEntities, MaxEntities)
    /\ constructed = entities
    /\ economy = NoEconomy
    /\ InWorld(<<>>)

NextCodec ==
    \/ Serialize
    \/ \E j \in Reloads : Deserialize(j)
    \/ DecodeElement
    \/ DecodeReturn
    \/ DecodeCatch

SpecCodec == InitCodec /\ [][NextCodec]_vars

\* v is an object that has the property name
Owns(v, name) == v.t = "object" /\ name \in DOMAIN v.f

\* C16: serialize() returns one record per entity, in order, without the
\* uid and without the WiredPins component, and deserialize of that value
\* returns a blueprint whose entities are those of the template, in order,
\* equal in every field but the uid.
C16_RoundTrip ==
    /\ data.t = "array" =>
        /\ Len(data.e) = Len(entities)
        /\ \A k \in DOMAIN entities :
            /\ ~Owns(data.e[k], "uid")
            /\ ~Owns(Get(data.e[k], "components"), "WiredPins")
            /\ Get(Get(data.e[k], "components"), "StaticMapEntity")
                    = SerializedStatic(entities[k])
    /\ (Decoded /\ json = data) =>
        /\ ret.kind = "blueprint"
        /\ Len(ret.entities) = Len(entities)
        /\ \A k \in DOMAIN entities : ret.entities[k] = [entities[k] EXCEPT !.uid = 0]

\* A template of three entities, one with a uid and one with wired pins,
\* has come back from deserialize(serialize())
C16_Witness ==
    /\ Decoded /\ json = data /\ ret.kind = "blueprint"
    /\ Len(entities) = 3
    /\ \E k \in DOMAIN entities : entities[k].uid # 0 /\ ret.entities[k].uid = 0
    /\ \E k \in DOMAIN entities : HasWiredPins(entities[k].code)

----------------------------------------------------------------------------
(* SynthSystem and ShapezSynth.  synths maps a uid to the reference of its *)
(* ShapezSynth in synthHeap; a ShapezSynth is its uid, its shape, the      *)
(* number of dispose calls it has had, the number of update calls it has   *)
(* had after a dispose call, and what its last update did.  A              *)
(* shape is the sequence of its characters.  play and cleanup run to their *)
(* end without giving up control, so each is one step.                     *)

\* What update did: it returned at once, returned without a note, or
\* triggered the note
Unchanged == [did |-> "unchanged"]
Release == [did |-> "release"]
Attack(note) == [did |-> "attack", note |-> note]

\* The n-th character of str counted from 0, or "undefined"
CharAt(str, n) == IF n + 1 \in DOMAIN str THEN str[n + 1] ELSE "undefined"

\* str.indexOf(ch)
IndexOf(str, ch) ==
    IF \E n \in DOMAIN str : str[n] = ch
    THEN (CHOOSE n \in DOMAIN str : str[n] = ch /\ \A m \in 1 .. (n - 1) : str[m] # ch) - 1
    ELSE -1

OCTIVE_STR == <<"C", "R", "S", "W">>
TONE_STR == <<"u", "r", "y", "g", "c", "b", "p", "w">>
ADJ_STR == <<"C", "R", "S">>
TONES == <<"-", "C", "D", "E", "F", "G", "A", "B">>
ADJS == <<"b", "", "#">>

\* getNoteFromShape(shape): "none" stands for undefined, "" is the rest,
\* a note is its tone, its adjustment and its octave
GetNoteFromShape(shape) ==
    IF shape = <<>> \/ Len(shape) < 4 THEN [kind |-> "none"]
    ELSE LET toneIndex == IndexOf(TONE_STR, shape[2])
             adjIndex == IndexOf(ADJ_STR, shape[3])
             octiveIndex == IndexOf(OCTIVE_STR, shape[1])
         IN  IF toneIndex = 0 THEN [kind |-> "rest"]
             ELSE [kind |-> "note", tone |-> CharAt(TONES, toneIndex),
                   adj |-> CharAt(ADJS, adjIndex), octive |-> octiveIndex + 3]

\* new ShapezSynth(uid)
NewShapezSynth(uid) ==
    [uid |-> uid, shape |-> <<>>, disposed |-> 0, late |-> 0, last |-> Unchanged]

\* Mutant: update does not compare the shape with the one it remembers
SynthUpdate_NoDiff(o, shape) ==
    LET note == GetNoteFromShape(shape) IN
    [o EXCEPT !.late = IF o.disposed > 0 THEN @ + 1 ELSE @,
              !.shape = shape,
              !.last = IF note.kind \in {"none", "rest"} THEN Release ELSE Attack(note)]

\* Mutant: only the rest is silent (if (note == "") return), undefined is not
SynthUpdate_OnlyRestSilent(o, shape) ==
    LET called == [o EXCEPT !.late = IF o.disposed > 0 THEN @ + 1 ELSE @] IN
    IF o.shape = shape THEN [called EXCEPT !.last = Unchanged]
    ELSE LET note == GetNoteFromShape(shape) IN
         [called EXCEPT !.shape = shape,
                        !.last = IF note.kind = "rest" THEN Release ELSE Attack(note)]

\* ShapezSynth.update(shape)
SynthUpdate(o, shape) ==
    LET called == [o EXCEPT !.late = IF o.disposed > 0 THEN @ + 1 ELSE @] IN
    IF o.shape = shape THEN [called EXCEPT !.last = Unchanged]
    ELSE LET note == GetNoteFromShape(shape) IN
         [called EXCEPT !.shape = shape,
                        !.last = IF note.kind \in {"none", "rest"} THEN Release
                                 ELSE Attack(note)]

\* ShapezSynth.dispose()
SynthDispose(o) == [o EXCEPT !.disposed = @ + 1]

\* The system: the map and the objects it refers to
System(map, objects) == [synths |-> map, heap |-> objects, failed |-> FALSE]

\* obj without the property key (delete obj[key])
Without(map, key) == [u \in DOMAIN map \ {key} |-> map[u]]

\* obj with obj[key] = value
With(map, key, value) == [u \in DOMAIN map \cup {key} |-> IF u = key THEN value ELSE map[u]]

\* Mutant: a synth whose display is gone is disposed but stays in the map
DeleteLoop_KeepsStale(sys, info, keys) ==
    LET stale == {u \in DOMAIN sys.synths : u \notin DOMAIN info} IN
    [sys EXCEPT !.heap = [r \in DOMAIN sys.heap |->
                            IF \E u \in stale : sys.synths[u] = r
                            THEN SynthDispose(sys.heap[r]) ELSE sys.heap[r]]]

\* for (let uid of Object.keys(synths)) if (displayInfo[uid] == undefined)
\* { synths[uid].dispose(); delete synths[uid]; }     keys: those still to visit
RECURSIVE DeleteLoop(_, _, _)
DeleteLoop(sys, info, keys) ==
    IF keys = <<>> THEN sys
    ELSE LET uid == Head(keys) IN
         IF uid \notin DOMAIN info
         THEN DeleteLoop([sys EXCEPT !.heap[sys.synths[uid]] = SynthDispose(@),
                                     !.synths = Without(@, uid)],
                         info, Tail(keys))
         ELSE DeleteLoop(sys, info, Tail(keys))

\* for (let uid of Object.keys(displayInfo)) if (synths[uid] == undefined)
\* synths[uid] = new ShapezSynth(uid);
RECURSIVE CreateLoop(_, _, _)
CreateLoop(sys, info, keys) ==
    IF keys = <<>> THEN sys
    ELSE LET uid == Head(keys) IN
         IF uid \notin DOMAIN sys.synths
         THEN CreateLoop([sys EXCEPT !.heap = Append(@, NewShapezSynth(uid)),
                                     !.synths = With(@, uid, Len(sys.heap) + 1)],
                         info, Tail(keys))
         ELSE CreateLoop(sys, info, Tail(keys))

\* for (let uid of Object.keys(synths)) { assert(...); synths[uid].update(displayInfo[uid]); }
\* A failed assertion throws and ends the loop
RECURSIVE UpdateLoop(_, _, _)
UpdateLoop(sys, info, keys) ==
    IF keys = <<>> THEN sys
    ELSE LET uid == Head(keys) IN
         IF ~(uid \in DOMAIN sys.synths /\ uid \in DOMAIN info)
         THEN [sys EXCEPT !.failed = TRUE]
         ELSE UpdateLoop([sys EXCEPT !.heap[sys.synths[uid]] = SynthUpdate(@, info[uid])],
                         info, Tail(keys))

\* The displays that can be drawn, by uid
DisplayUids == {21, 22}

\* The values a display shows: no shape, a rest, a note
ShapeValues == {<<>>, <<"C", "u", "C", "u">>, <<"R", "r", "S", "r">>}

\* getDisplayValues(): every drawn display's uid with the shape it shows
DisplayValues == UNION {[drawn -> ShapeValues] : drawn \in SUBSET DisplayUids}

\* play(), getDisplayValues() returning info
Play(info) ==
    /\ pc = "idle" /\ plays < MaxPlays /\ ret.kind # "threw"
    /\ displayInfo' = info
    /\ LET deleted == DeleteLoop(System(synths, synthHeap), info, Ascending(DOMAIN synths))
           created == CreateLoop(deleted, info, Ascending(DOMAIN info))
           updated == UpdateLoop(created, info, Ascending(DOMAIN created.synths))
       IN  /\ synths' = updated.synths
           /\ synthHeap' = updated.heap
           /\ ret' = IF updated.failed THEN ThrewRet ELSE VoidRet
    /\ plays' = plays + 1
    /\ UNCHANGED <<entities, constructed, history, advice, economy, afford, data,
                   worldVars, scopeVars, placeVars, pc, i, calls, trace, decodeVars,
                   uidsVars>>

\* Mutant: cleanup disposes every synth and leaves the map as it is
Cleanup_KeepsMap ==
    /\ pc = "idle" /\ ret.kind # "threw"
    /\ synthHeap' = [r \in DOMAIN synthHeap |->
                        IF \E u \in DOMAIN synths : synths[u] = r
                        THEN SynthDispose(synthHeap[r]) ELSE synthHeap[r]]
    /\ ret' = VoidRet
    /\ UNCHANGED <<entities, constructed, history, advice, economy, afford, data,
                   synths, displayInfo, plays, worldVars, scopeVars, placeVars, pc, i,
                   calls, trace, decodeVars, uidsVars>>

\* cleanup(), on root.signals.aboutToDestruct
Cleanup ==
    /\ pc = "idle" /\ ret.kind # "threw"
    /\ synthHeap' = [r \in DOMAIN synthHeap |->
                        IF \E u \in DOMAIN synths : synths[u] = r
                        THEN SynthDispose(synthHeap[r]) ELSE synthHeap[r]]
    /\ synths' = [u \in {} |-> 0]
    /\ ret' = VoidRet
    /\ UNCHANGED <<entities, constructed, history, advice, economy, afford, data,
                   displayInfo, plays, worldVars, scopeVars, placeVars, pc, i, calls,
                   trace, decodeVars, uidsVars>>

InitSynth ==
    /\ Quiet
    /\ entities = <<>>
    /\ constructed = entities
    /\ economy = NoEconomy
    /\ InWorld(<<>>)

NextSynth ==
    \/ \E info \in DisplayValues : Play(info)
    \/ Cleanup

SpecSynth == InitSynth /\ [][NextSynth]_vars

----------------------------------------------------------------------------
(* Properties of SynthSystem.play *)

\* play returns, or throws, in this step
PlayEnds == plays' = plays + 1

\* C20: whatever displays were drawn at the calls before, when play()
\* ends the uids that have a synth are the uids of the displays drawn at
\* this call, and the assertion "synths not in sync with displays" has not
\* failed.
C20_SynthsFollowDisplays ==
    [][PlayEnds =>
        /\ DOMAIN synths' = DOMAIN displayInfo'
        /\ ret'.kind # "threw"]_vars

\* After a play that saw one display go and another come: the synth of the
\* first is disposed, the synth of the second is newer
C20_Witness ==
    /\ plays >= 2 /\ ret.kind = "void"
    /\ DOMAIN synths = DOMAIN displayInfo
    /\ \E u \in DisplayUids \ DOMAIN synths, v \in DOMAIN synths :
        \E r \in DOMAIN synthHeap :
            /\ synthHeap[r].uid = u /\ synthHeap[r].disposed = 1
            /\ synths[v] > r

----------------------------------------------------------------------------
(* Properties of the life of a ShapezSynth *)

\* The object r is the synth of some uid
Mapped(r) == \E u \in DOMAIN synths : synths[u] = r

\* Every object out of the map has had one dispose call, every object in
\* the map none, and no object an update call after a dispose call
Lifecycle ==
    \A r \in DOMAIN synthHeap :
        /\ synthHeap[r].disposed = (IF Mapped(r) THEN 0 ELSE 1)
        /\ synthHeap[r].late = 0

\* cleanup returns in this step
CleanupEnds == plays' = plays

\* C21: over every interleaving of play() and cleanup(), a ShapezSynth
\* that has left the synths map has been disposed exactly once, no synth is
\* updated or disposed after its disposal, and when cleanup() returns the
\* map is empty and every synth ever created has been disposed.
C21_SynthLifecycle ==
    /\ []Lifecycle
    /\ [][CleanupEnds =>
            /\ DOMAIN synths' = {}
            /\ \A r \in DOMAIN synthHeap' : synthHeap'[r].disposed = 1]_vars

\* cleanup has emptied a map whose display 21 had its second synth, the
\* first having been disposed by play
C21_Witness ==
    /\ DOMAIN synths = {} /\ plays >= 2
    /\ \E r, q \in DOMAIN synthHeap :
        /\ r < q /\ synthHeap[r].uid = synthHeap[q].uid
        /\ synthHeap[r].disposed = 1 /\ synthHeap[q].disposed = 1
    /\ \A r \in DOMAIN synthHeap : synthHeap[r].late = 0

----------------------------------------------------------------------------
(* play() seen from one display: display 21 shows every kind of shape     *)
(* while display 22, when drawn, shows one note.                           *)

CSharp4 == <<"R", "r", "S", "r">>

\* No shape, a shape of two characters, a rest, two notes, and a shape
\* whose second quadrant is a windmill, which ADJ_STR does not hold
ToneShapes ==
    {<<>>, <<"C", "r">>, <<"C", "u", "C", "u">>, CSharp4, <<"C", "g", "R", "g">>,
     <<"C", "r", "W", "r">>}

\* getDisplayValues()
ToneValues ==
    {[u \in drawn |-> IF u = 21 THEN shape ELSE CSharp4] :
        drawn \in SUBSET DisplayUids, shape \in ToneShapes}

NextTone ==
    \/ \E info \in ToneValues : Play(info)
    \/ Cleanup

SpecTone == InitSynth /\ [][NextTone]_vars

\* getNoteFromShape gives a note for the shape, that is a string that is
\* not empty: the shape has four characters or more and its colour is not
\* that of the rest
MapsToNote(shape) == Len(shape) >= 4 /\ shape[2] # "u"

\* The synth of display u after this step
SynthOf(u) == synthHeap'[synths'[u]]

\* The shape the synth of display u saw last, before this step
SeenLast(u) == IF u \in DOMAIN synths THEN synthHeap[synths[u]].shape ELSE <<>>

\* C22: in a play(), the synth of a display triggers a note only when the
\* shape shown differs from the shape that synth saw last (the empty string
\* for a new synth) and maps to a note; a shape equal to the one seen last
\* triggers nothing; a change to the empty shape or to a shape of fewer than
\* four characters is remembered and triggers nothing.
C22_NoteOnlyOnChange ==
    [][PlayEnds =>
        \A u \in DOMAIN synths' :
            LET shown == displayInfo'[u] IN
            /\ (SynthOf(u).last.did = "attack" =>
                    shown # SeenLast(u) /\ MapsToNote(shown))
            /\ (shown = SeenLast(u) => SynthOf(u).last.did = "unchanged")
            /\ ((shown # SeenLast(u) /\ Len(shown) < 4) =>
                    SynthOf(u).shape = shown /\ SynthOf(u).last.did = "release")]_vars

\* The synth of display 21 has played a note and has since been shown the
\* same shape again, while display 22 came and went
C22_Witness ==
    /\ plays >= 3 /\ 21 \in DOMAIN synths
    /\ synthHeap[synths[21]].shape = <<"C", "g", "R", "g">>
    /\ synthHeap[synths[21]].last.did = "unchanged"
    /\ \E r \in DOMAIN synthHeap : synthHeap[r].uid = 22 /\ synthHeap[r].disposed = 1

\* The synth of display 21 remembers a shape of two characters and is silent
C22_WitnessShort ==
    /\ plays >= 2 /\ 21 \in DOMAIN synths
    /\ synthHeap[synths[21]].shape = <<"C", "r">>
    /\ synthHeap[synths[21]].last.did = "release"

\* The synth of display 21 has just played a note
C22_WitnessAttack ==
    /\ plays >= 2 /\ 21 \in DOMAIN synths
    /\ synthHeap[synths[21]].last = Attack([kind |-> "note", tone |-> "C", adj |-> "#",
                                            octive |-> 4])

====
